---- MODULE Spec2Model ----
(***************************************************************************)
(* Model of the zqlite-rs connection pool (src/ghostwire/zqlite-rs/src/    *)
(* pool.rs): ConnectionPool, PoolInner and PooledConnectionGuard, with the *)
(* mutex, its poisoning, the condition variable and a discrete clock.      *)
(* Every critical section of the pool lock is one action; the one place    *)
(* where the clock is read twice inside a critical section (get_connection *)
(* lines 231 and 239) is split in two steps with the lock held between.    *)
(* On top of the pool: the async bridge of async_connection.rs (each        *)
(* bridged operation a closure on a blocking worker, AsyncTransaction),    *)
(* Transaction of lib.rs against the storage engine, the Rows iterator of  *)
(* row.rs, AsyncPreparedStatement, the Error kinds of error.rs and the     *)
(* typed accessors of Row on the foreign result buffer, each with a        *)
(* specification of its own.                                               *)
(***************************************************************************)
EXTENDS Integers, Sequences, FiniteSets, TLC

\* Bounds of the model: threads sharing the pool, largest max_connections, last clock
\* tick, connections ever opened, waits ever entered
NumThreads == 2
MaxConn == 2
MaxTime == 3
MaxCreated == 4
MaxWaits == 2
\* statements executed through one transaction, writes it makes
MaxStatements == 2
MaxValues == 3
\* Transaction values alive at once on one connection
MaxLive == 2
\* rows and columns of a result set
MaxRows == 6
MaxCols == 3
\* parameters of one execute_with_params
MaxParams == 2


\* Durations tried for connection_timeout, max_connection_lifetime, max_idle_time
Timeouts == {0, 1}
\* <<max_connection_lifetime, max_idle_time>>
Expiries == {<<2, 1>>}
TestQueries == {TRUE}

\* PoolConfig (pool.rs 11-24); test_query is TRUE for Some(_), FALSE for None
PoolConfig ==
    {[min_connections |-> mn, max_connections |-> mx, connection_timeout |-> to,
      max_connection_lifetime |-> e[1], max_idle_time |-> e[2], test_query |-> q] :
        mn \in 0..MaxConn, mx \in 0..MaxConn, to \in Timeouts, e \in Expiries,
        q \in TestQueries}

\* the configurations the pool is built with: min_size <= max_size
Configs == {c \in PoolConfig : c.min_connections <= c.max_connections}

VARIABLES
    config,        \* PoolInner.config
    phase,         \* "unbuilt" before ConnectionPool::new ran, then "ready" or "failed"
    available,     \* PoolInner.available : sequence of PooledConnection
    active_count,  \* PoolInner.active_count
    stats,         \* PoolInner.stats : PoolStats
    waiting,       \* PoolInner.waiting
    lockOwner,     \* thread holding the pool mutex across steps, 0 if none
    poisoned,      \* the mutex was poisoned by a panic under the lock
    cvWaiters,     \* threads blocked in Condvar::wait_timeout
    now,           \* the clock read by Instant::now()
    pc,            \* per thread: position in get_connection / guard lifetime
    start,         \* per thread: `start` of get_connection
    timedOut,      \* per thread: WaitTimeoutResult::timed_out()
    guard,         \* per thread: connection held by its PooledConnectionGuard, 0 if none
    returned,      \* the call that returned in the last step, and what it returned
    born,          \* per connection id: the time Connection::open created it (0 once
                   \* the connection is finalized)
    finalized,     \* ids of connections that were dropped (closed)
    rt,            \* the checkout that no other pool operation has followed yet
    call,          \* per thread: the bridged async operation its blocking worker runs
    atx,           \* the AsyncTransaction handed out by begin_transaction
    engine,        \* the database engine's state of one Connection
    tx,            \* the Transaction open on that Connection
    rows,          \* a Rows result set and its iteration
    buf,           \* the foreign result buffer behind that Rows, and the Row in hand
    acc,           \* the access to a Row or column made in the last step
    stmt,          \* an AsyncPreparedStatement
    err            \* an Error value and what is_recoverable said of it

\* the state of the pool
poolVars == <<config, phase, available, active_count, stats, waiting, lockOwner, poisoned,
              cvWaiters, now, pc, start, timedOut, guard, returned, born, finalized, rt>>
\* the state of what is built on a Connection and on the pool
more == <<buf, acc, stmt, err>>
ext == <<call, atx, engine, tx, rows, more>>
vars == <<poolVars, ext>>

NoConn == [id |-> 0, created_at |-> 0, last_used |-> 0]
\* the threads that share the pool
Threads == DOMAIN pc

\* invalid: the connections whose test query failed in the call; create_failed: how
\* many create_connection calls of the call failed; closed: the idle connections a
\* close cleared
NoReturn == [t |-> 0, r |-> "none", expired |-> {}, invalid |-> {}, create_failed |-> 0,
             closed |-> {}]
NoRt == [t |-> 0, idle |-> 0, active |-> 0, created |-> 0, destroyed |-> 0]

\* no bridged operation dispatched, no AsyncTransaction, no engine, Transaction or
\* Rows in use
NoResult == [kind |-> "none", msg |-> ""]
NoCall == [op |-> "none", cancelled |-> FALSE, lock_ctx |-> "none", result |-> NoResult]
\* conn: the connection begin_transaction began on; executed: statements executed
\* through the AsyncTransaction; ran_on: the connections they ran on
NoAtx == [state |-> "none", conn |-> 0, committed |-> FALSE, executed |-> 0, ran_on |-> {}]
\* the engine behind one Connection: the committed rows, the rows written inside the
\* transaction in progress, and the commit and rollback calls it has received since
\* the last begin
NoEngine == [in_tx |-> FALSE, data |-> {}, pending |-> {}, commits |-> 0, rollbacks |-> 0]
\* base: the rows the connection held at begin; wrote: the rows the Transaction's
\* execute calls wrote; seen: what the last query returned (queried: in the last
\* step); live: the Transaction values alive on the connection; refused: the last
\* step was a begin_transaction that returned an error while a Transaction was open
NoTx == [state |-> "none", committed |-> FALSE, base |-> {}, wrote |-> {},
         ended_by |-> "none", queried |-> FALSE, seen |-> {}, live |-> 0,
         refused |-> FALSE]
\* yielded: the row indices next() has returned so far; last: what the last call of
\* next() returned
NoRows == [row_count |-> 0, column_count |-> 0, current_row |-> 0, yielded |-> <<>>,
           last |-> "absent"]
\* state: of the buffer the Rows in hand was built on ("none", "allocated", "freed");
\* frees: the calls of zqlite_result_free on it; row: the Row in hand, empty when
\* there is none, else one record of its fields and of whether the buffer its
\* pointer names has been freed
NoBuf == [state |-> "none", frees |-> 0, row |-> <<>>]
\* op: the accessor called; column: its index (or name) argument; cols: the
\* column_count it tested against; names: the column names the engine reported;
\* t, opt: the type asked for; ty: the type the engine reports for the cell; read: the
\* access read the foreign buffer; dangling: it read it after it was freed; kind,
\* index, out: the Result
NoAcc == [op |-> "none", column |-> 0, cols |-> 0, names |-> {}, t |-> "none",
          opt |-> FALSE, ty |-> "none", read |-> FALSE, dangling |-> FALSE,
          kind |-> "none", index |-> 0, out |-> "none"]
\* asked: the SQL text given to prepare; sql: the field of the AsyncPreparedStatement;
\* arg: the parameters captured by the closure in flight; ran: the text the last
\* execute_with_params prepared; bound: the indices it bound, in order
NoStmt == [state |-> "none", asked |-> "", sql |-> "", arg |-> <<>>, ran |-> "",
           bound |-> <<>>, done |-> FALSE]
\* e: the Error value; checked: is_recoverable was applied; recoverable: its answer
NoErr == [e |-> [kind |-> "none", msg |-> "", index |-> 0], checked |-> FALSE,
          recoverable |-> FALSE]

saturating_sub_keeps(a, b) == a
\* u32::saturating_sub
saturating_sub(a, b) == IF a >= b THEN a - b ELSE 0

Ids(q) == {q[i].id : i \in 1..Len(q)}

\* PooledConnection::new (pool.rs 61-68): both stamps are the current time
PooledConnection_new(id, t) == [id |-> id, created_at |-> t, last_used |-> t]

is_expired_lifetime_only(c, cfg, t) == t - c.created_at > cfg.max_connection_lifetime
\* PooledConnection::is_expired (pool.rs 70-74)
is_expired(c, cfg, t) ==
    \/ t - c.created_at > cfg.max_connection_lifetime
    \/ t - c.last_used > cfg.max_idle_time

\* PooledConnection::is_valid (pool.rs 80-92); `bad` are the connections on which
\* executing the test query fails
is_valid_always(c, cfg, bad) == TRUE
is_valid(c, cfg, bad) == IF cfg.test_query THEN c.id \notin bad ELSE TRUE

\* The while-let loop of get_connection (pool.rs 186-206): pops from the front,
\* discarding expired or invalid connections, until one is usable or the queue is empty.
RECURSIVE acquire_idle(_, _, _, _)
acquire_idle(q, cfg, t, bad) ==
    IF q = <<>>
    THEN [found |-> FALSE, conn |-> NoConn, rest |-> <<>>, discarded |-> {},
          expired |-> {}, popped |-> 0]
    ELSE LET c == Head(q) IN
         IF is_expired(c, cfg, t) \/ ~is_valid(c, cfg, bad)
         THEN LET r == acquire_idle(Tail(q), cfg, t, bad) IN
              [r EXCEPT !.discarded = @ \cup {c.id}, !.popped = @ + 1,
                        !.expired = IF is_expired(c, cfg, t) THEN @ \cup {c.id} ELSE @]
         ELSE [found |-> TRUE, conn |-> c, rest |-> Tail(q), discarded |-> {},
               expired |-> {}, popped |-> 1]

can_create_upto_max(avail, active, cfg) == active + Len(avail) <= cfg.max_connections
\* the capacity test of get_connection (pool.rs 209)
can_create(avail, active, cfg) == active + Len(avail) < cfg.max_connections

should_keep_never(avail, active, cfg) == FALSE
\* should_keep of Drop for PooledConnectionGuard (pool.rs 329-330)
should_keep(avail, active, cfg) ==
    /\ Len(avail) < cfg.max_connections
    /\ active + Len(avail) >= cfg.min_connections

take_keeps(g) == g
\* self.connection.take() (pool.rs 325) leaves None in the guard
take(g) == 0

on_create_counts_first(ok, n) == n + 1
\* the match on create_connection's result in get_connection (pool.rs 210-227): a
\* counter is incremented in the Ok arm only
on_create(ok, n) == IF ok THEN n + 1 ELSE n

initial_count_one_more(cfg) == cfg.min_connections + 1
\* the number of connections initialize_connections creates (pool.rs 153-155)
initial_count(cfg) == cfg.min_connections

init_ok_ignores_errors(k, cfg) == TRUE
\* initialize_connections returns Ok only if none of its creations failed: `?` at
\* pool.rs 156 returns the first error (k creations had succeeded before it)
init_ok(k, cfg) == k = initial_count(cfg)

to_create_ignores_active(kept, active, cfg) ==
    IF Len(kept) < cfg.min_connections THEN cfg.min_connections - Len(kept) ELSE 0
to_create_one_short(kept, active, cfg) ==
    IF active + Len(kept) + 1 < cfg.min_connections
    THEN cfg.min_connections - (active + Len(kept)) - 1 ELSE 0
\* the number of connections maintain tries to create (pool.rs 284-286)
to_create(kept, active, cfg) ==
    IF active + Len(kept) < cfg.min_connections
    THEN cfg.min_connections - (active + Len(kept)) ELSE 0

closed_stats_forgets_destroyed(st) == [st EXCEPT !.idle_connections = 0]
\* the bookkeeping of close (pool.rs 302-303)
closed_stats(st) == [st EXCEPT !.connections_destroyed = @ + st.idle_connections,
                               !.idle_connections = 0]

NewStats == [connections_created |-> 0, connections_destroyed |-> 0,
             active_connections |-> 0, idle_connections |-> 0, waiting_requests |-> 0]

\* The state built by ConnectionPool::new before it calls initialize_connections
\* (pool.rs 113-131), for a configuration of cfgs and n threads sharing the pool
InitWith(cfgs, n) ==
    /\ config \in cfgs
    /\ phase = "unbuilt"
    /\ available = <<>>
    /\ active_count = 0
    /\ stats = NewStats
    /\ waiting = 0
    /\ lockOwner = 0
    /\ poisoned = FALSE
    /\ cvWaiters = {}
    /\ now = 0
    /\ pc = [t \in 1..n |-> "idle"]
    /\ start = [t \in 1..n |-> 0]
    /\ timedOut = [t \in 1..n |-> FALSE]
    /\ guard = [t \in 1..n |-> 0]
    /\ returned = NoReturn
    /\ born = <<>>
    /\ finalized = {}
    /\ rt = NoRt
    /\ call = [t \in 1..n |-> NoCall]
    /\ atx = NoAtx
    /\ engine = NoEngine
    /\ tx = NoTx
    /\ rows = NoRows
    /\ buf = NoBuf
    /\ acc = NoAcc
    /\ stmt = NoStmt
    /\ err = NoErr

Init == InitWith(Configs, NumThreads)

\* the connections with ids Len(born)+1 .. Len(born)+k, opened at time t
FreshConns(k, t) == [i \in 1..k |-> PooledConnection_new(Len(born) + i, t)]
Opened(b, k, t) == b \o [i \in 1..k |-> t]
\* the finalized connections `ids` have no age any more
Retire(b, ids) == [i \in 1..Len(b) |-> IF i \in ids THEN 0 ELSE b[i]]

RetEnv(t, r, x, inv, nf) ==
    [t |-> t, r |-> r, expired |-> x, invalid |-> inv, create_failed |-> nf,
     closed |-> {}]
Ret(t, r, x) == RetEnv(t, r, x, {}, 0)
Snapshot(t) == [t |-> t, idle |-> Len(available), active |-> active_count,
                created |-> stats.connections_created,
                destroyed |-> stats.connections_destroyed]

\* ConnectionPool::new -> initialize_connections (pool.rs 134, 151-164): the first k
\* creations succeed; a failure (k < min) returns the error and drops the pool.
New ==
    /\ phase = "unbuilt"
    /\ \E k \in 0..initial_count(config) :
        /\ Len(born) + k <= MaxCreated
        /\ IF init_ok(k, config)
           THEN /\ phase' = "ready"
                /\ born' = Opened(born, k, now)
                /\ available' = available \o FreshConns(k, now)
                /\ stats' = [stats EXCEPT !.connections_created = @ + k,
                                          !.idle_connections = config.min_connections]
                /\ finalized' = finalized
           ELSE /\ phase' = "failed"
                /\ born' = Opened(born, k, 0)
                /\ available' = <<>>
                /\ stats' = [stats EXCEPT !.connections_created = @ + k]
                /\ finalized' = finalized \cup {Len(born) + i : i \in 1..k}
        /\ returned' = [NoReturn EXCEPT
                           !.create_failed = IF k < initial_count(config) THEN 1 ELSE 0]
    /\ UNCHANGED <<config, active_count, waiting, lockOwner, poisoned, cvWaiters, now,
                   pc, start, timedOut, guard, rt>>

\* Instant::now() moves on
Tick ==
    /\ now < MaxTime
    /\ now' = now + 1
    /\ returned' = NoReturn
    /\ UNCHANGED <<config, phase, available, active_count, stats, waiting, lockOwner,
                   poisoned, cvWaiters, pc, start, timedOut, guard, born, finalized, rt>>

\* lock().unwrap() on the poisoned mutex panics the calling thread
Panic(t) ==
    /\ pc' = [pc EXCEPT ![t] = "panicked"]
    /\ start' = [start EXCEPT ![t] = 0]
    /\ returned' = Ret(t, "panic", {})

Ready(t) == phase = "ready" /\ lockOwner = 0

\* get_connection, pool.rs 176-180: take `start`, read the timeout under the lock
GetStart(t) ==
    /\ Ready(t)
    /\ pc[t] = "idle"
    /\ IF poisoned
       THEN Panic(t)
       ELSE /\ pc' = [pc EXCEPT ![t] = "loop"]
            /\ start' = [start EXCEPT ![t] = now]
            /\ returned' = NoReturn
    /\ rt' = NoRt
    /\ UNCHANGED <<config, phase, available, active_count, stats, waiting, lockOwner,
                   poisoned, cvWaiters, now, timedOut, guard, born, finalized>>

\* the outcomes of the test query that one pass of get_connection can meet
ProbeFailures == IF config.test_query THEN SUBSET Ids(available) ELSE {{}}

\* get_connection returns to its caller
Return(t, to, r, x) ==
    /\ pc' = [pc EXCEPT ![t] = to]
    /\ start' = [start EXCEPT ![t] = 0]
    /\ returned' = Ret(t, r, x)

\* get_connection returns from a pass in which the test query failed on `inv` and
\* nf creations failed
ReturnEnv(t, to, r, x, inv, nf) ==
    /\ pc' = [pc EXCEPT ![t] = to]
    /\ start' = [start EXCEPT ![t] = 0]
    /\ returned' = RetEnv(t, r, x, inv, nf)

\* get_connection, one iteration of the outer loop up to the timeout test
\* (pool.rs 183-233), one critical section
LoopIter(t) ==
    /\ Ready(t)
    /\ pc[t] = "loop"
    /\ IF poisoned
       THEN /\ Panic(t)
            /\ rt' = NoRt
            /\ UNCHANGED <<available, active_count, stats, lockOwner, guard, born,
                           finalized>>
       ELSE \E bad \in ProbeFailures :
            LET r == acquire_idle(available, config, now, bad)
                st == [stats EXCEPT
                         !.idle_connections = saturating_sub(@, r.popped),
                         !.connections_destroyed = @ + Cardinality(r.discarded)]
                b == Retire(born, r.discarded)
                \* the popped connections on which the test query ran and failed
                inv == (bad \cap (Ids(available) \ Ids(r.rest))) \ r.expired
            IN
            /\ available' = r.rest
            /\ finalized' = finalized \cup r.discarded
            /\ IF r.found
               THEN \* pool.rs 196-205: hand out the idle connection
                    /\ active_count' = active_count + 1
                    /\ stats' = [st EXCEPT !.active_connections = @ + 1]
                    /\ guard' = [guard EXCEPT ![t] = r.conn.id]
                    /\ ReturnEnv(t, "holding", "ok", r.expired, inv, 0)
                    /\ rt' = Snapshot(t)
                    /\ born' = b
                    /\ UNCHANGED lockOwner
               ELSE IF can_create(r.rest, active_count, config)
               THEN \* pool.rs 209-228: create_connection succeeds or fails
                    \/ /\ Len(born) < MaxCreated
                       /\ born' = Opened(b, 1, now)
                       /\ active_count' = on_create(TRUE, active_count)
                       /\ stats' = [st EXCEPT
                             !.connections_created = on_create(TRUE, @),
                             !.active_connections = on_create(TRUE, @)]
                       /\ guard' = [guard EXCEPT ![t] = Len(born) + 1]
                       /\ ReturnEnv(t, "holding", "ok", r.expired, inv, 0)
                       /\ rt' = Snapshot(t)
                       /\ UNCHANGED lockOwner
                    \/ /\ active_count' = on_create(FALSE, active_count)
                       /\ stats' = [st EXCEPT
                             !.connections_created = on_create(FALSE, @),
                             !.active_connections = on_create(FALSE, @)]
                       /\ born' = b
                       /\ ReturnEnv(t, "idle", "create_err", r.expired, inv, 1)
                       /\ rt' = NoRt
                       /\ UNCHANGED <<guard, lockOwner>>
               ELSE IF now - start[t] >= config.connection_timeout
               THEN \* pool.rs 231-233
                    /\ stats' = st
                    /\ born' = b
                    /\ ReturnEnv(t, "idle", "timeout", r.expired, inv, 0)
                    /\ rt' = NoRt
                    /\ UNCHANGED <<active_count, guard, lockOwner>>
               ELSE \* goes on to wait, still holding the lock
                    /\ stats.waiting_requests < MaxWaits
                    /\ stats' = st
                    /\ born' = b
                    /\ pc' = [pc EXCEPT ![t] = "prewait"]
                    /\ lockOwner' = t
                    /\ returned' = NoReturn
                    /\ rt' = NoRt
                    /\ UNCHANGED <<active_count, guard, start>>
    /\ UNCHANGED <<config, phase, waiting, poisoned, cvWaiters, now, timedOut>>

\* get_connection, pool.rs 235-239: count the waiter, read the clock again and enter
\* wait_timeout, which releases the lock.  Duration subtraction panics when the
\* elapsed time has passed the timeout since the test of line 231; the panic unwinds
\* with the lock held and poisons the mutex.
WaitEnter(t) ==
    /\ phase = "ready"
    /\ pc[t] = "prewait"
    /\ lockOwner = t
    /\ waiting' = waiting + 1
    /\ stats' = [stats EXCEPT !.waiting_requests = @ + 1]
    /\ lockOwner' = 0
    /\ IF now - start[t] > config.connection_timeout
       THEN /\ Panic(t)
            /\ poisoned' = TRUE
            /\ UNCHANGED cvWaiters
       ELSE /\ pc' = [pc EXCEPT ![t] = "waiting"]
            /\ cvWaiters' = cvWaiters \cup {t}
            /\ returned' = NoReturn
            /\ UNCHANGED <<poisoned, start>>
    /\ rt' = NoRt
    /\ UNCHANGED <<config, phase, available, active_count, now, timedOut, guard, born,
                   finalized>>

\* The instant at which the wait_timeout of line 239 times out: it was entered at
\* some time e with duration timeout - (e - start), so it ends at start + timeout.
wait_deadline(t) == start[t] + config.connection_timeout

\* wait_timeout ends because its duration elapsed
TimeoutWake(t) ==
    /\ pc[t] = "waiting"
    /\ t \in cvWaiters
    /\ now >= wait_deadline(t)
    /\ cvWaiters' = cvWaiters \ {t}
    /\ timedOut' = [timedOut EXCEPT ![t] = TRUE]
    /\ pc' = [pc EXCEPT ![t] = "woken"]
    /\ returned' = NoReturn
    /\ UNCHANGED <<config, phase, available, active_count, stats, waiting, lockOwner,
                   poisoned, now, start, guard, born, finalized, rt>>

\* wait_timeout ends by a spurious wake-up, which std's Condvar allows
SpuriousWake(t) ==
    /\ pc[t] = "waiting"
    /\ t \in cvWaiters
    /\ cvWaiters' = cvWaiters \ {t}
    /\ timedOut' = [timedOut EXCEPT ![t] = FALSE]
    /\ pc' = [pc EXCEPT ![t] = "woken"]
    /\ returned' = NoReturn
    /\ UNCHANGED <<config, phase, available, active_count, stats, waiting, lockOwner,
                   poisoned, now, start, guard, born, finalized, rt>>

\* get_connection, pool.rs 240-246: the woken thread has the lock again
Resume(t) ==
    /\ Ready(t)
    /\ pc[t] = "woken"
    /\ timedOut' = [timedOut EXCEPT ![t] = FALSE]
    /\ IF poisoned
       THEN Panic(t) /\ UNCHANGED waiting
       ELSE /\ waiting' = waiting - 1
            /\ IF timedOut[t]
               THEN Return(t, "idle", "timeout", {})
               ELSE /\ pc' = [pc EXCEPT ![t] = "loop"]
                    /\ returned' = NoReturn
                    /\ UNCHANGED start
    /\ rt' = NoRt
    /\ UNCHANGED <<config, phase, available, active_count, stats, lockOwner, poisoned,
                   cvWaiters, now, guard, born, finalized>>

\* Condvar::notify_one: the thread it wakes, one of those blocked on the condition
\* variable, or 0 when none is blocked
notify_nobody == {0}
notify_one == IF cvWaiters = {} THEN {0} ELSE cvWaiters

\* Drop for PooledConnectionGuard (pool.rs 323-351), one critical section.  On the
\* poisoned mutex lock().unwrap() panics after take(): the connection is dropped
\* and the pool is not told.
Drop(t) ==
    /\ Ready(t)
    /\ pc[t] = "holding"
    /\ guard[t] # 0
    /\ guard' = [guard EXCEPT ![t] = take(guard[t])]
    /\ IF poisoned
       THEN /\ Panic(t)
            /\ finalized' = finalized \cup {guard[t]}
            /\ born' = Retire(born, {guard[t]})
            /\ rt' = NoRt
            /\ UNCHANGED <<available, active_count, stats, cvWaiters, timedOut>>
       ELSE /\ IF should_keep(available, active_count, config)
               THEN /\ available' = Append(available, PooledConnection_new(guard[t], now))
                    /\ stats' = [stats EXCEPT
                                   !.idle_connections = @ + 1,
                                   !.active_connections = saturating_sub(@, 1)]
                    /\ UNCHANGED <<finalized, born>>
               ELSE /\ stats' = [stats EXCEPT
                                   !.connections_destroyed = @ + 1,
                                   !.active_connections = saturating_sub(@, 1)]
                    /\ finalized' = finalized \cup {guard[t]}
                    /\ born' = Retire(born, {guard[t]})
                    /\ UNCHANGED available
            /\ active_count' = saturating_sub(active_count, 1)
            /\ \E w \in (IF waiting > 0 THEN notify_one ELSE {0}) :
                 IF w = 0
                 THEN /\ pc' = [pc EXCEPT ![t] = "idle"]
                      /\ UNCHANGED <<cvWaiters, timedOut>>
                 ELSE /\ pc' = [pc EXCEPT ![t] = "idle", ![w] = "woken"]
                      /\ cvWaiters' = cvWaiters \ {w}
                      /\ timedOut' = [timedOut EXCEPT ![w] = FALSE]
            /\ returned' = NoReturn
            /\ rt' = IF rt.t = t THEN rt ELSE NoRt
            /\ UNCHANGED start
    /\ UNCHANGED <<config, phase, waiting, lockOwner, poisoned, now>>

\* maintain's scan (pool.rs 264-270): the indices of the expired idle connections
to_remove_first_only(q, cfg, t) ==
    LET E == {i \in 1..Len(q) : is_expired(q[i], cfg, t)}
    IN IF E = {} THEN {} ELSE {CHOOSE i \in E : \A j \in E : i <= j}
to_remove(q, cfg, t) == {i \in 1..Len(q) : is_expired(q[i], cfg, t)}

\* maintain's removal (pool.rs 272-277): the indices go, last first
RECURSIVE Without(_, _)
Without(q, S) ==
    IF q = <<>> THEN <<>>
    ELSE Without(SubSeq(q, 1, Len(q) - 1), S) \o
         (IF Len(q) \in S THEN <<>> ELSE <<q[Len(q)]>>)

\* ConnectionPool::maintain (pool.rs 262-296): the expired idle connections go, then
\* up to min_connections are created; k of the creations succeed.
Maintain(t) ==
    /\ Ready(t)
    /\ pc[t] = "idle"
    /\ IF poisoned
       THEN /\ Panic(t)
            /\ UNCHANGED <<available, stats, born, finalized>>
       ELSE LET kept == Without(available, to_remove(available, config, now))
                gone == Ids(available) \ Ids(kept)
                n == to_create(kept, active_count, config)
            IN \E k \in 0..n :
                 /\ Len(born) + k <= MaxCreated
                 /\ available' = kept \o FreshConns(k, now)
                 /\ born' = Opened(Retire(born, gone), k, now)
                 /\ finalized' = finalized \cup gone
                 /\ stats' = [stats EXCEPT
                       !.connections_destroyed = @ + Cardinality(gone),
                       !.idle_connections = saturating_sub(@, Cardinality(gone)) + k,
                       !.connections_created = @ + k]
                 /\ returned' = RetEnv(t, "maintained", gone, {}, n - k)
                 /\ UNCHANGED <<pc, start>>
    /\ rt' = NoRt
    /\ UNCHANGED <<config, phase, active_count, waiting, lockOwner, poisoned, cvWaiters,
                   now, timedOut, guard>>

\* ConnectionPool::close (pool.rs 299-305)
Close(t) ==
    /\ Ready(t)
    /\ pc[t] = "idle"
    /\ IF poisoned
       THEN /\ Panic(t)
            /\ UNCHANGED <<available, stats, born, finalized>>
       ELSE /\ available' = <<>>
            /\ finalized' = finalized \cup Ids(available)
            /\ born' = Retire(born, Ids(available))
            /\ stats' = closed_stats(stats)
            /\ returned' = [Ret(t, "closed", {}) EXCEPT !.closed = Ids(available)]
            /\ UNCHANGED <<pc, start>>
    /\ rt' = NoRt
    /\ UNCHANGED <<config, phase, active_count, waiting, lockOwner, poisoned, cvWaiters,
                   now, timedOut, guard>>

Next ==
    \/ New /\ UNCHANGED ext
    \/ Tick /\ UNCHANGED ext
    \/ \E t \in Threads : GetStart(t) /\ UNCHANGED ext
    \/ \E t \in Threads : LoopIter(t) /\ UNCHANGED ext
    \/ \E t \in Threads : WaitEnter(t) /\ UNCHANGED ext
    \/ \E t \in Threads : TimeoutWake(t) /\ UNCHANGED ext
    \/ \E t \in Threads : SpuriousWake(t) /\ UNCHANGED ext
    \/ \E t \in Threads : Resume(t) /\ UNCHANGED ext
    \/ \E t \in Threads : Drop(t) /\ UNCHANGED ext
    \/ \E t \in Threads : Maintain(t) /\ UNCHANGED ext
    \/ \E t \in Threads : Close(t) /\ UNCHANGED ext

Spec == Init /\ [][Next]_vars

\* One single-connection pool shared by one thread more: a holder, a waiter and a
\* third caller
WaitersConfig == [min_connections |-> 0, max_connections |-> 1, connection_timeout |-> 1,
                  max_connection_lifetime |-> 2, max_idle_time |-> 1, test_query |-> TRUE]
InitWaiters == InitWith({WaitersConfig}, NumThreads + 1)
SpecWaiters == InitWaiters /\ [][Next]_vars

\* ------------------------------------------------------------------ properties

Total == active_count + Len(available)
Guards == {guard[t] : t \in Threads} \ {0}
IdleExpired(c) == now - c.last_used > config.max_idle_time
\* the step in which get_connection hands thread t a guard
CheckedOut(t) == pc[t] = "loop" /\ pc'[t] = "holding"
\* the step in which get_connection of thread t runs one pass over the pool
Passed(t) == pc[t] = "loop" /\ pc'[t] # "loop"
\* the step in which thread t drops its guard
Dropped(t) == pc[t] = "holding" /\ pc'[t] # "holding"

\* C1: in every reachable state active_count plus the length of the idle queue is at
\* most max_connections.
C1_TotalAtMostMax == Total <= config.max_connections

\* a full pool holding both checked-out and idle connections, one of them created by
\* a checkout
C1_Witness ==
    /\ phase = "ready"
    /\ Total = config.max_connections
    /\ active_count >= 1
    /\ Len(available) >= 1
    /\ stats.connections_created > config.min_connections

\* C2: every live connection is owned by the idle queue or by exactly one guard:
\* no connection is twice in the queue, in the queue and in a guard, or in two guards,
\* and no owned connection has been finalized.
C2_OwnedOnce ==
    /\ \A i, j \in 1..Len(available) : i # j => available[i].id # available[j].id
    /\ \A t \in Threads : guard[t] # 0 => guard[t] \notin Ids(available)
    /\ \A t, u \in Threads : (t # u /\ guard[t] # 0) => guard[t] # guard[u]
    /\ (Ids(available) \cup Guards) \cap finalized = {}

\* a guard is out while a connection that a guard handed back sits in the queue
C2_Witness ==
    /\ \E t \in Threads : pc[t] = "holding" /\ guard[t] # 0
    /\ \E i \in 1..Len(available) : available[i].created_at > born[available[i].id]

\* C3: with max_connections (at least one) connections checked out, no call panics:
\* a further checkout returns a guard or a timeout.
C3_CheckoutNeverPanics ==
    (config.max_connections > 0 /\ active_count = config.max_connections)
        => returned.r # "panic"

\* C4: the step in which ConnectionPool::new succeeds leaves active = 0,
\* idle = min_connections (queue and gauge), created = min_connections, destroyed = 0.
C4_AfterNew ==
    [][(phase = "unbuilt" /\ phase' = "ready") =>
          /\ active_count' = 0
          /\ stats'.active_connections = 0
          /\ Len(available') = config.min_connections
          /\ stats'.idle_connections = config.min_connections
          /\ stats'.connections_created = config.min_connections
          /\ stats'.connections_destroyed = 0]_vars

\* a pool just built with two connections
C4_Witness ==
    /\ phase = "ready"
    /\ config.min_connections = 2
    /\ Len(available) = 2
    /\ stats.connections_created = 2
    /\ active_count = 0
    /\ \A t \in Threads : pc[t] = "idle"
    /\ rt = NoRt /\ returned = NoReturn

\* the checkout recorded in rt took the front idle connection: nothing was created
\* and nothing discarded
Reused == /\ rt.idle >= 1
          /\ stats.connections_created = rt.created
          /\ stats.connections_destroyed = rt.destroyed

C6_IdleExpiredNotHanded ==
    [][\A t \in Threads : Passed(t) =>
          /\ \A i \in 1..Len(available) :
                IdleExpired(available[i]) =>
                    /\ guard'[t] # available[i].id
                    /\ available[i].id \notin Ids(available') =>
                           available[i].id \in finalized'
          /\ stats'.connections_destroyed =
                stats.connections_destroyed
                + Cardinality((Ids(available) \ Ids(available')) \ {guard'[t]})]_vars

\* a checkout has just discarded an idle connection that was past max_idle_time but
\* not past max_connection_lifetime, and handed out another connection
C6_Witness ==
    /\ returned.r = "ok"
    /\ returned.expired # {}
    /\ returned.expired \subseteq finalized
    /\ config.max_idle_time < config.max_connection_lifetime
    /\ stats.connections_destroyed > 0
    /\ now <= config.max_connection_lifetime

\* C7: a connection handed out by a checkout is never older, counted from its
\* creation, than max_connection_lifetime.
C7_LifetimeRespected ==
    [][\A t \in Threads : CheckedOut(t) =>
          now - born'[guard'[t]] <= config.max_connection_lifetime]_vars

\* C8: on the drop of a guard, with the mutex in order, the connection is kept in the
\* idle queue whenever the queue is below max_connections and the pool's connection
\* count, the returning one included, is at or below min_connections.
C8_KeptWhenAtOrBelowMin ==
    [][\A t \in Threads :
          (Dropped(t) /\ ~poisoned /\ Len(available) < config.max_connections
             /\ Total <= config.min_connections)
          => guard[t] \in Ids(available')]_vars

\* C9: the drop of a guard decrements active_count by exactly one and either puts the
\* connection in the idle queue or finalizes it, never both.
C9_DropReturnsOnce ==
    [][\A t \in Threads : Dropped(t) =>
          /\ active_count' = active_count - 1
          /\ (guard[t] \in Ids(available')) # (guard[t] \in finalized')]_vars

\* C10: the drop of a guard while a checkout is blocked on the condition variable
\* wakes at least one blocked waiter.
C10_ReleaseWakesWaiter ==
    [][\A t \in Threads : (Dropped(t) /\ cvWaiters # {}) =>
          \E w \in cvWaiters : w \notin cvWaiters' /\ pc'[w] = "woken"]_vars

\* The pool of the blocking scenario: min 2, max 4, a checkout timeout of two ticks,
\* and lifetimes no run of the clock reaches (an hour and ten minutes against a
\* timeout of milliseconds)
ScenarioConfig == [min_connections |-> 2, max_connections |-> 4, connection_timeout |-> 2,
                   max_connection_lifetime |-> MaxTime + 1, max_idle_time |-> MaxTime + 1,
                   test_query |-> TRUE]
\* the callers of the scenario, the first four of them, and the fifth
Callers == 1..5
Holders == 1..4
Fifth == CHOOSE t \in Callers : t \notin Holders
InitScenario == InitWith({ScenarioConfig}, Cardinality(Callers))

\* The scenario's schedule: the callers check out one after the other, the fifth once
\* the first four hold their guards; one of the four guards is dropped while the
\* fifth call is in progress.  Inside a call every interleaving is allowed.
NextScenario ==
    \/ New /\ UNCHANGED ext
    \/ Tick /\ UNCHANGED ext
    \/ \E t \in Threads :
         /\ \A u \in Threads : /\ u < t => pc[u] = "holding"
                               /\ u > t => pc[u] = "idle"
         /\ GetStart(t)
         /\ UNCHANGED ext
    \/ \E t \in Threads : LoopIter(t) /\ UNCHANGED ext
    \/ \E t \in Threads : WaitEnter(t) /\ UNCHANGED ext
    \/ \E t \in Threads : TimeoutWake(t) /\ UNCHANGED ext
    \/ \E t \in Threads : SpuriousWake(t) /\ UNCHANGED ext
    \/ \E t \in Threads : Resume(t) /\ UNCHANGED ext
    \/ \E t \in Holders :
         /\ \A u \in Holders : pc[u] = "holding"
         /\ pc[Fifth] # "idle"
         /\ Drop(t)
         /\ UNCHANGED ext
SpecScenario == InitScenario /\ [][NextScenario]_vars

\* C11: in the pool with min 2 and max 4, once four callers hold their guards
\* active_count is 4 and the idle queue is empty; a fifth checkout that finds them so
\* before its timeout goes to wait; the drop of one guard while the fifth is blocked
\* before its deadline wakes it, the only waiter, and leaves one idle connection; the
\* woken caller is handed a connection, unless a creation fails, and active_count is 4
\* again.
C11_FifthBlocksUntilDrop ==
    [][/\ (\A u \in Holders : pc'[u] = "holding") =>
             active_count' = 4 /\ available' = <<>>
       /\ (Passed(Fifth) /\ (\A u \in Holders : pc[u] = "holding")
             /\ now - start[Fifth] < config.connection_timeout) =>
             pc'[Fifth] = "prewait"
       /\ \A t \in Holders :
            (Dropped(t) /\ Fifth \in cvWaiters /\ now < wait_deadline(Fifth)) =>
               /\ pc'[Fifth] = "woken" /\ ~timedOut'[Fifth] /\ cvWaiters' = {}
               /\ active_count' = 3 /\ Len(available') = 1
       /\ (Passed(Fifth) /\ available # <<>> /\ returned'.create_failed = 0) =>
             /\ pc'[Fifth] = "holding" /\ returned'.r = "ok"
             /\ active_count' = 4 /\ available' = <<>>]_vars

\* the fifth caller holds a guard after having waited, one of the four has dropped
C11_Witness ==
    /\ pc[Fifth] = "holding" /\ returned.t = Fifth /\ returned.r = "ok"
    /\ stats.waiting_requests >= 1
    /\ active_count = 4
    /\ \E u \in Holders : pc[u] = "idle"

\* The scheduler runs every thread that can take a step and the clock moves on: a
\* call in progress is not starved of its pass, of its wait, of its wake-up at the
\* deadline or of the mutex
Fairness ==
    /\ WF_vars(Tick /\ UNCHANGED ext)
    /\ \A t \in 1..NumThreads :
         /\ WF_vars(LoopIter(t) /\ UNCHANGED ext)
         /\ WF_vars(WaitEnter(t) /\ UNCHANGED ext)
         /\ WF_vars(TimeoutWake(t) /\ UNCHANGED ext)
         /\ WF_vars(Resume(t) /\ UNCHANGED ext)
SpecFair == Init /\ [][Next]_vars /\ Fairness

\* thread t is inside get_connection
InCall(t) == pc[t] \in {"loop", "prewait", "waiting", "woken"}

\* Every call of get_connection whose deadline the clock of the model reaches comes
\* to an end: it returns, or it panics
CheckoutEnds ==
    \A t \in 1..NumThreads :
       (InCall(t) /\ wait_deadline(t) <= MaxTime) ~> ~InCall(t)

\* C12: every call of get_connection that ends, ends by returning a guard, Timeout or
\* the creation error.
C12_CheckoutReturns ==
    [][\A t \in Threads : (InCall(t) /\ ~InCall(t)') =>
          /\ returned'.t = t
          /\ returned'.r \in {"ok", "timeout", "create_err"}
          /\ pc'[t] = (IF returned'.r = "ok" THEN "holding" ELSE "idle")]_vars

\* C13: a connection whose test query fails during a checkout is not the one handed
\* out; it is finalized and counted in connections_destroyed, the checkout goes on to
\* a later idle connection or a new one, and what the call returns is a guard,
\* Timeout or the creation error, never an error of the validation.
C13_ProbeFailureDiscarded ==
    [][\A t \in Threads : (Passed(t) /\ returned'.t = t /\ returned'.invalid # {}) =>
          /\ \A id \in returned'.invalid :
                /\ id \in Ids(available)
                /\ id # guard'[t]
                /\ id \in finalized'
                /\ id \notin Ids(available')
          /\ stats'.connections_destroyed = stats.connections_destroyed
                + Cardinality(returned'.invalid \cup returned'.expired)
          /\ returned'.r \in {"ok", "timeout", "create_err"}
          /\ returned'.r = "ok" =>
                \/ guard'[t] \in Ids(available) \ returned'.invalid
                \/ guard'[t] = Len(born) + 1]_vars

\* a checkout has discarded a connection that failed its test query and handed out
\* the next idle one
C13_Witness ==
    /\ returned.r = "ok" /\ returned.invalid # {}
    /\ guard[returned.t] \notin returned.invalid
    /\ born[guard[returned.t]] < now
    /\ returned.invalid \subseteq finalized

\* C14: a checkout whose creation of a connection fails returns the creation error
\* from that very pass, without entering the wait, and leaves active_count and
\* connections_created (and the active gauge) as they were.
C14_CreationFailureReturnsAtOnce ==
    [][\A t \in Threads : (Passed(t) /\ returned'.t = t /\ returned'.create_failed > 0) =>
          /\ returned'.r = "create_err"
          /\ pc'[t] = "idle" /\ guard'[t] = 0
          /\ active_count' = active_count
          /\ stats'.connections_created = stats.connections_created
          /\ stats'.active_connections = stats.active_connections
          /\ waiting' = waiting
          /\ stats'.waiting_requests = stats.waiting_requests
          /\ t \notin cvWaiters']_vars

\* a checkout has just returned the creation error, before its timeout
C14_Witness ==
    /\ returned.r = "create_err" /\ returned.create_failed = 1
    /\ pc[returned.t] = "idle"
    /\ config.connection_timeout > 0
    /\ active_count + Len(available) < config.max_connections

\* maintain has returned in this step (every action sets returned)
Maintained == returned'.r = "maintained"

\* C15: a maintain that returns never leaves active + idle above max_connections, and
\* leaves it at or above min_connections when none of the creations it attempted
\* failed.
C15_MaintainWithinBounds ==
    [][Maintained =>
          /\ active_count' + Len(available') <= config.max_connections
          /\ returned'.create_failed = 0 =>
                active_count' + Len(available') >= config.min_connections]_vars

\* maintain has removed an expired idle connection, brought the pool below
\* min_connections, and created the replacement
C15_Witness ==
    /\ returned.r = "maintained" /\ returned.expired # {} /\ returned.create_failed = 0
    /\ active_count + Len(available) = config.min_connections
    /\ \E i \in 1..Len(available) : available[i].created_at = now /\ now > 0

\* the idle connections of the state that maintain finds expired
ExpiredIdle == {i \in 1..Len(available) : is_expired(available[i], config, now)}

\* C16 as stated: after a maintain that returns with no creation failed the idle queue
\* holds at least min_connections connections
C16_IdleAtLeastMin ==
    [][(Maintained /\ returned'.create_failed = 0) =>
          Len(available') >= config.min_connections]_vars

\* C16, amended: after a maintain that returns with no creation failed the idle queue
\* and the guards outstanding together hold at least min_connections connections, so
\* the idle queue holds at least min_connections - active_count; it holds exactly
\* min_connections, all of them new, when every idle connection was expired and no
\* guard is outstanding; the idle gauge equals the length of the queue.
C16_IdleToppedUpToMinLessActive ==
    [][(Maintained /\ returned'.create_failed = 0) =>
          /\ Len(available') >= config.min_connections - active_count
          /\ active_count' = active_count
          /\ (active_count = 0 /\ Cardinality(ExpiredIdle) = Len(available)) =>
                /\ Len(available') = config.min_connections
                /\ \A i \in 1..Len(available') : available'[i].created_at = now
          /\ stats'.idle_connections = Len(available')]_vars

\* maintain has returned with a guard outstanding and fewer than min_connections idle
\* connections, having created one
C16_Witness ==
    /\ returned.r = "maintained" /\ returned.create_failed = 0
    /\ active_count >= 1
    /\ Len(available) >= 1 /\ Len(available) < config.min_connections
    /\ \E i \in 1..Len(available) : born[available[i].id] = now /\ now > 0

\* close has returned in this step (every action sets returned)
Closed == returned'.r = "closed"

\* C17: a close that returns finalizes every idle connection and empties the idle
\* queue and the idle gauge, adds exactly the number of those connections to
\* connections_destroyed, and leaves active_count, connections_created and the
\* connections held by guards as they were.
C17_CloseFinalizesIdle ==
    [][Closed =>
          /\ available' = <<>>
          /\ stats'.idle_connections = 0
          /\ returned'.closed = Ids(available)
          /\ Ids(available) \subseteq finalized'
          /\ stats'.connections_destroyed = stats.connections_destroyed + Len(available)
          /\ active_count' = active_count
          /\ stats'.active_connections = stats.active_connections
          /\ stats'.connections_created = stats.connections_created
          /\ guard' = guard
          /\ \A t \in Threads : guard[t] # 0 => guard[t] \notin finalized']_vars

\* close has just finalized an idle connection while a guard is outstanding
C17_Witness ==
    /\ returned.r = "closed" /\ returned.closed # {}
    /\ returned.closed \subseteq finalized
    /\ available = <<>> /\ stats.connections_destroyed >= 1
    /\ active_count >= 1
    /\ \E t \in Threads : pc[t] = "holding" /\ guard[t] \notin finalized

\* C18: a guard dropped right after a close, so one whose connection was active when
\* close ran, has its connection finalized and not put back in the idle queue.
C18_ActiveAtCloseFinalizedOnDrop ==
    [][\A t \in Threads : (returned.r = "closed" /\ Dropped(t)) =>
          /\ guard[t] \in finalized'
          /\ guard[t] \notin Ids(available')]_vars

\* C19: new fails exactly when one of its min_connections creations fails, whichever
\* one it is; the failed new yields no pool: the connections created before the
\* failure are finalized, none is idle, and no operation runs on it afterwards.
C19_NewFailsOnAnyCreationFailure ==
    [][/\ (phase = "unbuilt" /\ phase' # "unbuilt") =>
             /\ (returned'.create_failed > 0) <=> (phase' = "failed")
             /\ phase' = "failed" =>
                   /\ stats'.connections_created < config.min_connections
                   /\ available' = <<>>
                   /\ \A id \in 1..Len(born') : id \in finalized'
             /\ phase' = "ready" => Len(available') = config.min_connections
       /\ phase = "failed" =>
             /\ phase' = "failed" /\ available' = <<>>
             /\ pc' = pc /\ guard' = guard /\ active_count' = 0]_vars

\* new has failed on its second creation, the first connection is finalized
C19_Witness ==
    /\ phase = "failed" /\ returned.create_failed = 1
    /\ config.min_connections = 2
    /\ Len(born) = 1 /\ 1 \in finalized
    /\ available = <<>>

\* the checkouts blocked in the wait: in the condition variable, or woken and about to
\* take the mutex again
Blocked == {t \in Threads : pc[t] \in {"waiting", "woken"}}

\* C20: with the mutex in order, the waiting_requests gauge is the number of checkouts
\* currently blocked in the wait, and so 0 when none is.
C20_WaitingGaugeIsBlockedCount ==
    ~poisoned => stats.waiting_requests = Cardinality(Blocked)

\* C21: the drop of a guard updates the idle queue and active_count and notifies in one
\* critical section: in the step in which a blocked waiter is woken by the drop the
\* connection is already in the idle queue or finalized and active_count is already
\* one lower, the mutex is free for the waiter, and nothing else of the pool changed;
\* with the mutex in order a drop with a waiter blocked wakes one.
C21_ReturnThenNotifyAtomic ==
    [][\A t \in Threads : Dropped(t) =>
          /\ \A w \in cvWaiters : pc'[w] = "woken" =>
                /\ active_count' = active_count - 1
                /\ stats'.active_connections = stats.active_connections - 1
                /\ \/ /\ available' = Append(available, PooledConnection_new(guard[t], now))
                      /\ stats'.idle_connections = Len(available')
                   \/ /\ available' = available
                      /\ guard[t] \in finalized'
                /\ guard'[t] = 0
                /\ lockOwner' = 0 /\ ~poisoned'
                /\ ~timedOut'[w]
                /\ waiting' = waiting
          /\ (~poisoned /\ cvWaiters # {}) =>
                \E w \in cvWaiters : pc'[w] = "woken" /\ w \notin cvWaiters']_vars

\* a waiter has just been woken by the drop of a guard whose connection now sits in
\* the idle queue
C21_Witness ==
    /\ \E w \in Threads : pc[w] = "woken" /\ ~timedOut[w]
    /\ Len(available) = 1 /\ active_count = 0
    /\ available[1].last_used = now
    /\ waiting = 1 /\ ~poisoned
    /\ \A t \in Threads : pc[t] \in {"woken", "idle"}

\* Pools whose connections neither expire within the run of the clock nor are probed:
\* no expiry and no validation failure
SteadyConfigs ==
    {c \in [min_connections : 0..MaxConn, max_connections : 1..MaxConn,
            connection_timeout : {1, 2}, max_connection_lifetime : {MaxTime + 1},
            max_idle_time : {MaxTime + 1}, test_query : {FALSE}] :
        c.min_connections <= c.max_connections}
InitSteady == InitWith(SteadyConfigs, NumThreads + 1)

\* threads that only check out and drop: no maintain, no close
NextSteady ==
    \/ New /\ UNCHANGED ext
    \/ Tick /\ UNCHANGED ext
    \/ \E t \in Threads : GetStart(t) /\ UNCHANGED ext
    \/ \E t \in Threads : LoopIter(t) /\ UNCHANGED ext
    \/ \E t \in Threads : WaitEnter(t) /\ UNCHANGED ext
    \/ \E t \in Threads : TimeoutWake(t) /\ UNCHANGED ext
    \/ \E t \in Threads : SpuriousWake(t) /\ UNCHANGED ext
    \/ \E t \in Threads : Resume(t) /\ UNCHANGED ext
    \/ \E t \in Threads : Drop(t) /\ UNCHANGED ext
SpecSteady == InitSteady /\ [][NextSteady]_vars

pool_error(msg) == [kind |-> "PoolError", msg |-> msg]
\* the errors of get_connection (pool.rs 232, 244) and of Connection::open, which
\* create_connection passes on (lib.rs 89)
ErrTimeout == pool_error("Connection timeout")
ErrConnectionFailed == [kind |-> "ConnectionFailed", msg |-> ""]
\* Connection::get_last_error (lib.rs 199-209)
ErrDatabase == [kind |-> "Database", msg |-> "errmsg"]
\* .map_err(|e| Error::pool_error(format!("Task join error: {}", e))), the JoinError
\* of a closure that panicked (async_connection.rs 53, 70)
ErrJoin == pool_error("Task join error")
OkResult == [kind |-> "Ok", msg |-> ""]
\* lock().unwrap() on the poisoned mutex, on the caller's own context
Panicked == [kind |-> "panic", msg |-> "PoisonError"]

\* The pools of the bridge: AsyncConnection::open builds min = max = 1
\* (async_connection.rs 22-26) with the default time limits in their order
\* (timeout < max_idle_time < max_connection_lifetime, pool.rs 30-34)
OpenConfig == [min_connections |-> 1, max_connections |-> 1, connection_timeout |-> 1,
               max_connection_lifetime |-> 3, max_idle_time |-> 2, test_query |-> TRUE]
AsyncConfigs == {OpenConfig}
InitAsync == InitWith(AsyncConfigs, NumThreads)

\* The Result of a bridged operation is kept for one step: the step in which its
\* JoinHandle resolves; Sweep forgets the operations that were over before
Sweep(c) == [u \in DOMAIN c |-> IF c[u].result # NoResult THEN NoCall ELSE c[u]]
Running(t) == call[t].op # "none" /\ call[t].result = NoResult

\* what the JoinHandle carries once the worker's get_connection has ended: the `?`
\* returns its error, a panic of the closure is the JoinError
AfterCheckout(t, r) ==
    IF pc'[t] = "panicked" THEN ErrJoin
    ELSE IF pc'[t] = "idle"
         THEN (IF returned'.r = "timeout" THEN ErrTimeout ELSE ErrConnectionFailed)
         ELSE r

\* spawn_blocking(move || { let conn = pool.get_connection()?; ... }): the closure
\* starts on worker t
Dispatch(t, op) ==
    /\ ~Running(t)
    /\ GetStart(t)
    /\ call' = [Sweep(call) EXCEPT ![t] =
                  [op |-> op, cancelled |-> FALSE, lock_ctx |-> "worker",
                   result |-> IF pc'[t] = "panicked" THEN ErrJoin ELSE NoResult]]

\* a step of the worker inside get_connection
WorkerStep(t) ==
    /\ Running(t)
    /\ \/ LoopIter(t)
       \/ WaitEnter(t)
       \/ TimeoutWake(t)
       \/ SpuriousWake(t)
       \/ Resume(t)
    /\ call' = [Sweep(call) EXCEPT ![t].result = AfterCheckout(t, NoResult)]

\* conn.execute(&sql) / conn.query(&sql) on the guard, then the closure ends and the
\* guard is dropped on the worker (async_connection.rs 49-51, 66-68)
RunAndRelease(t) ==
    /\ Running(t)
    /\ call[t].op \in {"execute", "query"}
    /\ Drop(t)
    /\ \E r \in {OkResult, ErrDatabase} :
         call' = [Sweep(call) EXCEPT ![t].result =
                    IF pc'[t] = "panicked" THEN ErrJoin ELSE r]

\* the future of the bridged operation is dropped while its closure is on the worker:
\* the JoinHandle is dropped, the closure goes on
Cancel(t) ==
    /\ Running(t)
    /\ call[t].op \in {"execute", "query"}
    /\ ~call[t].cancelled
    /\ call' = [Sweep(call) EXCEPT ![t].cancelled = TRUE]
    /\ returned' = NoReturn
    /\ UNCHANGED <<config, phase, available, active_count, stats, waiting, lockOwner,
                   poisoned, cvWaiters, now, pc, start, timedOut, guard, born, finalized,
                   rt>>

\* AsyncConnection::maintain_pool, AsyncConnectionPool::maintain / close: the pool
\* operation runs in spawn_blocking (async_connection.rs 135-142, 309-327)
DispatchMaintain(t) ==
    /\ ~Running(t)
    /\ Maintain(t)
    /\ call' = [Sweep(call) EXCEPT ![t] =
                  [op |-> "maintain", cancelled |-> FALSE, lock_ctx |-> "worker",
                   result |-> IF pc'[t] = "panicked" THEN ErrJoin ELSE OkResult]]
DispatchClose(t) ==
    /\ ~Running(t)
    /\ Close(t)
    /\ call' = [Sweep(call) EXCEPT ![t] =
                  [op |-> "close", cancelled |-> FALSE, lock_ctx |-> "worker",
                   result |-> IF pc'[t] = "panicked" THEN ErrJoin ELSE OkResult]]

\* AsyncConnection::pool_stats and AsyncConnectionPool::stats (async_connection.rs
\* 130-132, 303-305) call ConnectionPool::stats, which locks the pool mutex
\* (pool.rs 250-253), on the context of the caller; slot t stands for that caller
PoolStats(t) ==
    /\ ~Running(t)
    /\ pc[t] = "idle"
    /\ Ready(t)
    /\ call' = [Sweep(call) EXCEPT ![t] =
                  [op |-> "pool_stats", cancelled |-> FALSE, lock_ctx |-> "caller",
                   result |-> IF poisoned THEN Panicked ELSE OkResult]]
    /\ IF poisoned THEN Panic(t)
       ELSE returned' = NoReturn /\ UNCHANGED <<pc, start>>
    /\ rt' = NoRt
    /\ UNCHANGED <<config, phase, available, active_count, stats, waiting, lockOwner,
                   poisoned, cvWaiters, now, timedOut, guard, born, finalized>>

\* AsyncConnection::begin_transaction (async_connection.rs 93-107): the guard is
\* checked out on a worker (Dispatch, WorkerStep), then a second closure is given the
\* guard by move, begins the transaction on it and ends, which drops the guard; the
\* Transaction it returns is dropped by AsyncTransaction::new (async_connection.rs
\* 215-223).  The engine's BEGIN may fail.
BeginOnWorker(t) ==
    /\ Running(t)
    /\ call[t].op = "begin"
    /\ Drop(t)
    /\ \E ok \in BOOLEAN :
         /\ call' = [Sweep(call) EXCEPT ![t].result =
                       IF pc'[t] = "panicked" THEN ErrJoin
                       ELSE IF ok THEN OkResult ELSE ErrDatabase]
         /\ atx' = IF ok /\ pc'[t] # "panicked"
                   THEN [NoAtx EXCEPT !.state = "open", !.conn = guard[t]]
                   ELSE atx
    /\ UNCHANGED <<engine, tx, rows, more>>

\* AsyncTransaction::execute (async_connection.rs 227-235): Ok(()) with no statement
\* sent to any connection
AtxExecute ==
    /\ atx.state = "open"
    /\ ~atx.committed
    /\ atx.executed < MaxStatements
    /\ atx' = [atx EXCEPT !.executed = @ + 1]
    /\ call' = Sweep(call)
    /\ UNCHANGED <<poolVars, engine, tx, rows, more>>

\* AsyncTransaction::commit and rollback (async_connection.rs 251-268) consume the
\* AsyncTransaction; neither reaches a connection
AtxEnd ==
    /\ atx.state = "open"
    /\ atx' = NoAtx
    /\ call' = Sweep(call)
    /\ UNCHANGED <<poolVars, engine, tx, rows, more>>

NextAsync ==
    \/ New /\ call' = Sweep(call) /\ UNCHANGED <<atx, engine, tx, rows, more>>
    \/ Tick /\ call' = Sweep(call) /\ UNCHANGED <<atx, engine, tx, rows, more>>
    \/ \E t \in Threads : \E op \in {"execute", "query"} :
         Dispatch(t, op) /\ UNCHANGED <<atx, engine, tx, rows, more>>
    \/ \E t \in Threads : WorkerStep(t) /\ UNCHANGED <<atx, engine, tx, rows, more>>
    \/ \E t \in Threads : RunAndRelease(t) /\ UNCHANGED <<atx, engine, tx, rows, more>>
    \/ \E t \in Threads : Cancel(t) /\ UNCHANGED <<atx, engine, tx, rows, more>>
    \/ \E t \in Threads : DispatchMaintain(t) /\ UNCHANGED <<atx, engine, tx, rows, more>>
    \/ \E t \in Threads : DispatchClose(t) /\ UNCHANGED <<atx, engine, tx, rows, more>>
    \/ \E t \in Threads : PoolStats(t) /\ UNCHANGED <<atx, engine, tx, rows, more>>
SpecAsync == InitAsync /\ [][NextAsync]_vars

\* C23: when the caller of a bridged execute or query has been cancelled after the
\* dispatch, the step in which the closure ends on its worker returns the handle:
\* active_count goes down by one.
C23_CancelledCallReturnsHandle ==
    [][\A t \in Threads : (call[t].cancelled /\ Dropped(t)) =>
          active_count' = active_count - 1]_vars

\* C24: no operation of the bridge takes the pool's mutex on the context of its
\* caller.
C24_LockOnlyOnWorker == \A t \in Threads : call[t].lock_ctx # "caller"

\* C25: the error that carries a join failure has a kind that no pool error and no
\* database error has.
C25_JoinErrorKindDistinct ==
    \A t \in Threads : call[t].result = ErrJoin =>
        call[t].result.kind \notin {ErrTimeout.kind, ErrConnectionFailed.kind,
                                    ErrDatabase.kind}

\* The transactions of the bridge: begin_transaction, the statements, commit and
\* rollback of the AsyncTransaction, next to bridged execute calls of the same
\* AsyncConnection
NextAtx ==
    \/ New /\ call' = Sweep(call) /\ UNCHANGED <<atx, engine, tx, rows, more>>
    \/ Tick /\ call' = Sweep(call) /\ UNCHANGED <<atx, engine, tx, rows, more>>
    \/ \E t \in Threads :
         atx.state = "none" /\ Dispatch(t, "begin") /\ UNCHANGED <<atx, engine, tx, rows, more>>
    \/ \E t \in Threads : Dispatch(t, "execute") /\ UNCHANGED <<atx, engine, tx, rows, more>>
    \/ \E t \in Threads : WorkerStep(t) /\ UNCHANGED <<atx, engine, tx, rows, more>>
    \/ \E t \in Threads : RunAndRelease(t) /\ UNCHANGED <<atx, engine, tx, rows, more>>
    \/ \E t \in Threads : BeginOnWorker(t)
    \/ AtxExecute
    \/ AtxEnd
SpecAtx == InitAsync /\ [][NextAtx]_vars

\* C26: while an AsyncTransaction is open, the connection its transaction began on is
\* checked out (a guard holds it, the idle queue does not), and the statements
\* executed through it ran on that connection.
C26_TransactionPinsConnection ==
    atx.state = "open" =>
        /\ \E t \in Threads : guard[t] = atx.conn
        /\ atx.conn \notin Ids(available)
        /\ (atx.executed > 0 => atx.ran_on = {atx.conn})

\* C27: every checkout of a bridged call of an AsyncConnection made by open hands out
\* the connection that open created: it comes from the idle queue, and no connection
\* has been created since open.
C27_SameConnectionEveryCall ==
    [][\A t \in Threads : CheckedOut(t) =>
          /\ guard'[t] \in Ids(available)
          /\ stats'.connections_created = config.min_connections]_vars

\* ---------------------------------------------------------------------------
\* Transaction (lib.rs 333-387) on one Connection, against the storage engine.
\* The engine is the native library behind the zqlite_* calls; its transaction
\* primitives are taken from its contract: writes inside a transaction are
\* pending and visible to the connection's own queries, commit makes them
\* permanent, rollback discards them, a rollback with no transaction in
\* progress is an error that changes nothing.
\* ---------------------------------------------------------------------------
Values == 1..MaxValues

\* a BEGIN inside a transaction is refused
engine_begin_ok(e) == ~e.in_tx
engine_begin(e) == [e EXCEPT !.in_tx = TRUE, !.pending = {}, !.commits = 0, !.rollbacks = 0]
engine_execute(e, v) ==
    IF e.in_tx THEN [e EXCEPT !.pending = @ \cup {v}] ELSE [e EXCEPT !.data = @ \cup {v}]
engine_query(e) == IF e.in_tx THEN e.data \cup e.pending ELSE e.data
engine_commit(e, ok) ==
    IF ok THEN [e EXCEPT !.in_tx = FALSE, !.data = @ \cup e.pending, !.pending = {},
                         !.commits = @ + 1]
    ELSE [e EXCEPT !.commits = @ + 1]
engine_rollback(e) ==
    [e EXCEPT !.in_tx = FALSE, !.pending = {}, !.rollbacks = @ + 1]

\* Drop for Transaction (lib.rs 380-387): rolls back unless committed
drop_rolls_back_never(committed) == FALSE
drop_rolls_back(committed) == ~committed
drop_tx(e, committed) == IF drop_rolls_back(committed) THEN engine_rollback(e) ELSE e

Unqueried(x) == [x EXCEPT !.queried = FALSE, !.seen = {}, !.refused = FALSE]

\* Connection::execute outside a transaction (lib.rs 113-123); the record of an
\* ended Transaction is kept until the connection is written again
Execute(v) ==
    /\ tx.state # "open"
    /\ v \notin engine.data
    /\ \E ok \in BOOLEAN :
         /\ engine' = IF ok THEN engine_execute(engine, v) ELSE engine
         /\ tx' = IF ok THEN NoTx ELSE Unqueried(tx)
    /\ UNCHANGED <<poolVars, call, atx, rows, more>>

\* the test of the engine's return code in begin_transaction (lib.rs 191-193): a
\* Transaction is made only when the engine returned ZQLITE_OK
begin_accepted_always(ok) == TRUE
begin_accepted(ok) == ok

\* Connection::begin_transaction (lib.rs 188-196); it takes &self, so it can be
\* called while a Transaction of the connection is alive.  The engine may also fail
\* the BEGIN for a reason of its own.
Begin ==
    /\ tx.live < MaxLive
    /\ \E fails \in BOOLEAN :
         LET ok == engine_begin_ok(engine) /\ ~fails IN
         IF begin_accepted(ok)
         THEN /\ engine' = IF ok THEN engine_begin(engine) ELSE engine
              /\ tx' = IF tx.state = "open"
                       THEN [Unqueried(tx) EXCEPT !.live = @ + 1]
                       ELSE [NoTx EXCEPT !.state = "open", !.base = engine.data,
                                         !.live = 1]
         ELSE /\ tx' = [Unqueried(tx) EXCEPT !.refused = (tx.state = "open")]
              /\ UNCHANGED engine
    /\ UNCHANGED <<poolVars, call, atx, rows, more>>

\* Transaction::execute (lib.rs 370-372)
TxExecute(v) ==
    /\ tx.state = "open"
    /\ v \notin engine.data \cup engine.pending
    /\ \E ok \in BOOLEAN :
         IF ok
         THEN /\ engine' = engine_execute(engine, v)
              /\ tx' = [Unqueried(tx) EXCEPT !.wrote = @ \cup {v}]
         ELSE /\ tx' = Unqueried(tx)
              /\ UNCHANGED engine
    /\ UNCHANGED <<poolVars, call, atx, rows, more>>

\* Transaction::commit (lib.rs 347-356): self is dropped when commit returns, with
\* committed still false when the engine refused
TxCommit ==
    /\ tx.state = "open"
    /\ \E ok \in BOOLEAN :
         /\ engine' = drop_tx(engine_commit(engine, ok), ok)
         /\ tx' = [Unqueried(tx) EXCEPT !.state = "ended", !.committed = ok,
                     !.ended_by = IF ok THEN "commit" ELSE "commit_failed",
                     !.live = @ - 1]
    /\ UNCHANGED <<poolVars, call, atx, rows, more>>

\* Transaction::rollback (lib.rs 359-367): self is dropped when rollback returns,
\* with committed false
TxRollback ==
    /\ tx.state = "open"
    /\ engine' = drop_tx(engine_rollback(engine), tx.committed)
    /\ tx' = [Unqueried(tx) EXCEPT !.state = "ended", !.ended_by = "rollback",
                     !.live = @ - 1]
    /\ UNCHANGED <<poolVars, call, atx, rows, more>>

\* the Transaction goes out of scope with neither commit nor rollback called
TxDrop ==
    /\ tx.state = "open"
    /\ engine' = drop_tx(engine, tx.committed)
    /\ tx' = [Unqueried(tx) EXCEPT !.state = "ended", !.ended_by = "drop",
                     !.live = @ - 1]
    /\ UNCHANGED <<poolVars, call, atx, rows, more>>

\* Connection::query / Transaction::query (lib.rs 146-156, 375-377)
Query ==
    /\ ~tx.queried
    /\ tx' = [tx EXCEPT !.queried = TRUE, !.seen = engine_query(engine)]
    /\ UNCHANGED <<poolVars, call, atx, engine, rows, more>>

NextTx ==
    \/ \E v \in Values : Execute(v)
    \/ Begin
    \/ \E v \in Values : TxExecute(v)
    \/ TxCommit
    \/ TxRollback
    \/ TxDrop
    \/ Query
SpecTx == InitWith({OpenConfig}, 1) /\ [][NextTx]_vars

\* C28: a query after a Transaction was committed returns the rows the connection
\* held at begin and every row the Transaction wrote; a query after a Transaction
\* was dropped before commit returns the rows held at begin and none it wrote.
C28_CommitVisibleDropNot ==
    (tx.queried /\ tx.state = "ended") =>
        /\ tx.ended_by = "commit" => tx.seen = tx.base \cup tx.wrote
        /\ tx.ended_by = "drop" => tx.seen = tx.base

\* two execute calls, commit, then a query
C28_Witness ==
    /\ tx.queried
    /\ tx.state = "ended"
    /\ tx.ended_by = "commit"
    /\ Cardinality(tx.wrote) = 2
    /\ tx.wrote \subseteq tx.seen

\* C29: when a Transaction has ended, the engine has received for it one commit and
\* no rollback if commit() succeeded, one rollback and no commit if rollback() was
\* called or if it was dropped with neither.
C29_TerminatedExactlyOnce ==
    tx.state = "ended" =>
        /\ tx.ended_by = "commit" => (engine.commits = 1 /\ engine.rollbacks = 0)
        /\ tx.ended_by \in {"rollback", "drop"} =>
              (engine.commits = 0 /\ engine.rollbacks = 1)

\* ---------------------------------------------------------------------------
\* Rows (row.rs 8-101): the materialized result of a query and its iterator.
\* ---------------------------------------------------------------------------

\* Rows::new (row.rs 17-27): the counts are read from the result, the cursor is 0
RowsNew(rc, cc) ==
    /\ rows = NoRows
    /\ rows' = [row_count |-> rc, column_count |-> cc, current_row |-> 0,
                yielded |-> <<>>, last |-> "new"]
    /\ UNCHANGED <<poolVars, call, atx, engine, tx>>

\* the end test of next (row.rs 69)
at_end_past(r) == r.current_row > r.row_count
at_end(r) == r.current_row >= r.row_count

\* Iterator::next (row.rs 68-81)
RowsNext ==
    /\ rows.last # "absent"
    /\ rows' = IF at_end(rows)
               THEN [rows EXCEPT !.last = "none"]
               ELSE [rows EXCEPT !.yielded = Append(@, rows.current_row),
                                 !.current_row = @ + 1,
                                 !.last = "some"]
    /\ UNCHANGED <<poolVars, call, atx, engine, tx>>

\* ExactSizeIterator::len and size_hint (row.rs 83-92)
rows_len(r) == saturating_sub(r.row_count, r.current_row)

\* Drop for Rows (row.rs 95-101)
RowsDrop ==
    /\ rows.last # "absent"
    /\ rows' = NoRows
    /\ UNCHANGED <<poolVars, call, atx, engine, tx>>

NextRows ==
    \/ \E rc \in 0..MaxRows : \E cc \in 0..MaxCols : RowsNew(rc, cc) /\ UNCHANGED more
    \/ RowsNext /\ UNCHANGED more
    \/ RowsDrop /\ UNCHANGED more
SpecRows == InitWith({OpenConfig}, 1) /\ [][NextRows]_vars

\* C30: the call of next() made after k rows were yielded returns the row of index k
\* while k < row_count and nothing from then on, and before and after every call the
\* reported length is row_count minus the number of rows yielded.
C30_RowsExhaustive ==
    [][(rows.last # "absent" /\ rows'.last # "absent") =>
          LET k == Len(rows.yielded) IN
          /\ IF k < rows.row_count
             THEN rows'.yielded = Append(rows.yielded, k) /\ rows'.last = "some"
             ELSE rows'.yielded = rows.yielded /\ rows'.last = "none"
          /\ rows_len(rows) = rows.row_count - k
          /\ rows_len(rows') = rows.row_count - Len(rows'.yielded)]_vars

\* a result of several rows iterated to its end and once more
C30_Witness ==
    /\ rows.last = "none"
    /\ rows.row_count >= 2
    /\ Len(rows.yielded) = rows.row_count
    /\ rows_len(rows) = 0

\* C36, as claimed: a maintain that returns finalizes exactly the idle connections
\* that were expired when it ran, connections_destroyed and the idle gauge change by
\* their number, the other idle connections keep their place, and active_count and
\* the guards are as before.
C36_GaugeChangesByExpired ==
    [][Maintained =>
          LET E == {available[i].id : i \in ExpiredIdle}
              rest == SelectSeq(available, LAMBDA c : c.id \notin E)
          IN /\ finalized' = finalized \cup E
             /\ stats'.connections_destroyed = stats.connections_destroyed + Cardinality(E)
             /\ stats'.idle_connections = stats.idle_connections - Cardinality(E)
             /\ SubSeq(available', 1, Len(rest)) = rest
             /\ active_count' = active_count
             /\ guard' = guard]_vars

\* C36, amended: a maintain that returns finalizes exactly the idle connections that
\* were expired when it ran: connections_destroyed goes up by their number, the idle
\* gauge goes down by their number and up by the number of connections the top-up
\* created, the other idle connections keep their order at the front of the queue
\* with the created ones behind them, and active_count and the guards are as before.
C36_MaintainRemovesExactlyExpired ==
    [][Maintained =>
          LET E == {available[i].id : i \in ExpiredIdle}
              rest == SelectSeq(available, LAMBDA c : c.id \notin E)
              made == stats'.connections_created - stats.connections_created
          IN /\ finalized' = finalized \cup E
             /\ stats'.connections_destroyed = stats.connections_destroyed + Cardinality(E)
             /\ stats'.idle_connections = stats.idle_connections - Cardinality(E) + made
             /\ Len(available') = Len(rest) + made
             /\ SubSeq(available', 1, Len(rest)) = rest
             /\ active_count' = active_count
             /\ guard' = guard]_vars

\* a maintain that removed an expired idle connection, kept another and created one
C36_Witness ==
    /\ returned.r = "maintained"
    /\ returned.expired # {}
    /\ Len(available) >= 2
    /\ available[1].created_at < now
    /\ available[Len(available)].created_at = now

C38_GaugesMatchPool ==
    (phase = "ready" /\ lockOwner = 0 /\ ~poisoned) =>
        /\ stats.active_connections = active_count
        /\ stats.idle_connections = Len(available)

\* a built pool with a connection out and one idle, after connections were discarded
C38_Witness ==
    /\ phase = "ready" /\ lockOwner = 0 /\ ~poisoned
    /\ stats.active_connections >= 1
    /\ stats.idle_connections >= 1
    /\ stats.connections_destroyed >= 1

\* C40: the waiting counter is the number of checkouts that have entered the wait and
\* not yet resumed under the lock; so it is never negative, and 0 when no checkout is
\* in progress.
C40_WaitingCountsWaiters ==
    /\ waiting = Cardinality(Blocked)
    /\ waiting >= 0
    /\ ((\A t \in Threads : ~InCall(t)) => waiting = 0)

Sqls == {"INSERT INTO t VALUES (?)", "UPDATE t SET a = ?"}
SqlValues == {"Integer", "Real", "Text", "Null"}
RECURSIVE SeqsUpTo(_, _)
SeqsUpTo(S, n) ==
    IF n = 0 THEN {<<>>}
    ELSE LET shorter == SeqsUpTo(S, n - 1)
         IN shorter \cup {Append(q, x) : q \in shorter, x \in S}
ParamLists == SeqsUpTo(SqlValues, MaxParams)
ErrBind == [kind |-> "BindError", msg |-> ""]
ErrExecution == [kind |-> "ExecutionError", msg |-> ""]

\* AsyncPreparedStatement::new (async_connection.rs 154-163): the statement is
\* dropped and the sql field is set
stored_sql(asked) == ""

\* AsyncConnection::prepare (async_connection.rs 78-89) is called with the text sql
DispatchPrepare(t, sql) ==
    /\ Dispatch(t, "prepare")
    /\ stmt' = [NoStmt EXCEPT !.state = "preparing", !.asked = sql]
    /\ UNCHANGED <<atx, engine, tx, rows, buf, acc, err>>

\* its closure after the checkout: conn.prepare(&sql), AsyncPreparedStatement::new,
\* and the guard is dropped
PrepareOnWorker(t) ==
    /\ Running(t)
    /\ call[t].op = "prepare"
    /\ Drop(t)
    /\ \E ok \in BOOLEAN :
         /\ call' = [Sweep(call) EXCEPT ![t].result =
                       IF pc'[t] = "panicked" THEN ErrJoin
                       ELSE IF ok THEN OkResult ELSE ErrDatabase]
         /\ stmt' = IF ok /\ pc'[t] # "panicked"
                    THEN [stmt EXCEPT !.state = "ready", !.sql = stored_sql(stmt.asked)]
                    ELSE NoStmt
    /\ UNCHANGED <<atx, engine, tx, rows, buf, acc, err>>

\* AsyncPreparedStatement::execute_with_params (async_connection.rs 167-190) is
\* called with params
DispatchExecuteWithParams(t, params) ==
    /\ stmt.state = "ready"
    /\ Dispatch(t, "execute_with_params")
    /\ stmt' = [stmt EXCEPT !.arg = params, !.ran = "", !.bound = <<>>, !.done = FALSE]
    /\ UNCHANGED <<atx, engine, tx, rows, buf, acc, err>>

\* its closure after the checkout: conn.prepare(&sql) with the sql field, the binds
\* by enumerate() until one fails, stmt.execute(), and the guard is dropped.  The
\* engine decides whether the text prepares, how many binds it takes and whether
\* the step succeeds.
ExecuteWithParamsOnWorker(t) ==
    /\ Running(t)
    /\ call[t].op = "execute_with_params"
    /\ Drop(t)
    /\ \E prepared, stepped \in BOOLEAN : \E taken \in 0..Len(stmt.arg) :
         /\ call' = [Sweep(call) EXCEPT ![t].result =
                       IF pc'[t] = "panicked" THEN ErrJoin
                       ELSE IF ~prepared THEN ErrDatabase
                       ELSE IF taken < Len(stmt.arg) THEN ErrBind
                       ELSE IF stepped THEN OkResult ELSE ErrExecution]
         /\ stmt' = [stmt EXCEPT !.ran = stmt.sql,
                                 !.bound = IF prepared
                                           THEN [i \in 1..taken |-> i - 1] ELSE <<>>,
                                 !.done = TRUE]
    /\ UNCHANGED <<atx, engine, tx, rows, buf, acc, err>>

\* a checkout that ended without a guard ends the operation in flight
StmtWorkerStep(t) ==
    /\ WorkerStep(t)
    /\ stmt' = IF call'[t].result = NoResult \/ stmt.state = "ready" THEN stmt ELSE NoStmt
    /\ UNCHANGED <<atx, engine, tx, rows, buf, acc, err>>

NextStmt ==
    \/ New /\ call' = Sweep(call) /\ UNCHANGED <<atx, engine, tx, rows, more>>
    \/ Tick /\ call' = Sweep(call) /\ UNCHANGED <<atx, engine, tx, rows, more>>
    \/ \E t \in Threads : \E sql \in Sqls : DispatchPrepare(t, sql)
    \/ \E t \in Threads : StmtWorkerStep(t)
    \/ \E t \in Threads : PrepareOnWorker(t)
    \/ \E t \in Threads : \E params \in ParamLists : DispatchExecuteWithParams(t, params)
    \/ \E t \in Threads : ExecuteWithParamsOnWorker(t)
SpecStmt == InitWith({OpenConfig}, 1) /\ [][NextStmt]_vars

\* C35: when execute_with_params has run, the text it prepared is the text that was
\* given to prepare, and the parameters it bound were bound in order at 0, 1, ...
C35_RepreparesGivenSql ==
    stmt.done =>
        /\ stmt.ran = stmt.asked
        /\ Len(stmt.bound) <= Len(stmt.arg)
        /\ \A i \in 1..Len(stmt.bound) : stmt.bound[i] = i - 1

\* ---------------------------------------------------------------------------
\* Error (error.rs): the values of the enum, as a kind, a message and an index,
\* and is_recoverable.
\* ---------------------------------------------------------------------------
Err(kind, msg, index) == [kind |-> kind, msg |-> msg, index |-> index]

\* the codes From<i32> tells apart (error.rs 134-191), and its messages
Codes == {"OK", "ERROR", "INTERNAL", "PERM", "BUSY", "LOCKED", "NOMEM", "READONLY",
          "IOERR", "CORRUPT", "NOTFOUND", "FULL", "CANTOPEN", "PROTOCOL", "SCHEMA",
          "TOOBIG", "CONSTRAINT", "MISMATCH", "MISUSE", "NOLFS", "AUTH", "RANGE",
          "NOTADB", "other"}
from_code(code) ==
    CASE code = "OK" -> Err("Unknown", "", 0)
      [] code = "ERROR" -> Err("Database", "Generic error", 0)
      [] code = "INTERNAL" -> Err("Database", "Internal logic error", 0)
      [] code = "PERM" -> Err("Database", "Access permission denied", 0)
      [] code = "BUSY" -> Err("Database", "Database file is locked", 0)
      [] code = "LOCKED" -> Err("Database", "Database table is locked", 0)
      [] code = "NOMEM" -> Err("Database", "Out of memory", 0)
      [] code = "READONLY" -> Err("Database", "Attempt to write readonly database", 0)
      [] code = "IOERR" -> Err("Database", "Disk I/O error", 0)
      [] code = "CORRUPT" -> Err("Database", "Database image is malformed", 0)
      [] code = "NOTFOUND" -> Err("Database", "Item not found", 0)
      [] code = "FULL" -> Err("Database", "Insertion failed because database is full", 0)
      [] code = "CANTOPEN" -> Err("Database", "Unable to open database file", 0)
      [] code = "PROTOCOL" -> Err("Database", "Database lock protocol error", 0)
      [] code = "SCHEMA" -> Err("Database", "Database schema changed", 0)
      [] code = "TOOBIG" -> Err("Database", "String or BLOB exceeds size limit", 0)
      [] code = "CONSTRAINT" -> Err("Database", "Constraint violation", 0)
      [] code = "MISMATCH" -> Err("Database", "Data type mismatch", 0)
      [] code = "MISUSE" -> Err("Database", "Library used incorrectly", 0)
      [] code = "NOLFS" -> Err("Database", "OS features not supported", 0)
      [] code = "AUTH" -> Err("Database", "Authorization denied", 0)
      [] code = "RANGE" -> Err("Database", "Parameter out of range", 0)
      [] code = "NOTADB" -> Err("Database", "File opened that is not a database file", 0)
      [] OTHER -> Err("Database", "Unknown error code", 0)

UnitKinds == {"ConnectionFailed", "InvalidPath", "InvalidSql", "BindError",
              "ExecutionError", "ResetError", "TransactionError", "Unknown",
              "NullPointer"}
Messages == {"errmsg", "Connection timeout", "Task join error", "Column 'x' not found"}
Mismatches == {"expected INTEGER, actual TEXT", "expected TEXT, actual NULL",
               "expected REAL, actual BLOB", "expected BLOB, actual INTEGER",
               "expected INTEGER, actual NULL", "expected TEXT, actual INTEGER"}
IoKinds == {"NotFound", "PermissionDenied", "UnexpectedEof", "Other"}
\* the values the constructors of error.rs 80-107 and the variants make
Errors ==
    {Err(k, "", 0) : k \in UnitKinds}
    \cup {Err(k, m, 0) : k \in {"Database", "RowError", "PoolError"}, m \in Messages}
    \cup {Err("TypeMismatch", m, 0) : m \in Mismatches}
    \cup {Err("Io", m, 0) : m \in IoKinds}
    \cup {Err("IndexOutOfBounds", "", i) : i \in 0..MaxCols}

\* Error::is_recoverable (error.rs 110-128)
is_recoverable_pool_fatal(e) ==
    e.kind \in {"InvalidSql", "BindError", "ExecutionError", "ResetError", "RowError",
                "TypeMismatch", "IndexOutOfBounds"}
is_recoverable(e) ==
    CASE e.kind = "Database" -> FALSE
      [] e.kind = "ConnectionFailed" -> FALSE
      [] e.kind = "InvalidPath" -> FALSE
      [] e.kind = "InvalidSql" -> TRUE
      [] e.kind = "BindError" -> TRUE
      [] e.kind = "ExecutionError" -> TRUE
      [] e.kind = "ResetError" -> TRUE
      [] e.kind = "TransactionError" -> FALSE
      [] e.kind = "RowError" -> TRUE
      [] e.kind = "TypeMismatch" -> TRUE
      [] e.kind = "PoolError" -> TRUE
      [] e.kind = "Unknown" -> FALSE
      [] e.kind = "Io" -> FALSE
      [] e.kind = "NullPointer" -> FALSE
      [] e.kind = "IndexOutOfBounds" -> TRUE

\* an operation fails with the error e
Raise(e) ==
    /\ err' = [e |-> e, checked |-> FALSE, recoverable |-> FALSE]
    /\ UNCHANGED <<poolVars, call, atx, engine, tx, rows, buf, acc, stmt>>

\* an engine code is converted, Error::from(code)
FromCode(code) ==
    /\ err' = [e |-> from_code(code), checked |-> FALSE, recoverable |-> FALSE]
    /\ UNCHANGED <<poolVars, call, atx, engine, tx, rows, buf, acc, stmt>>

\* the caller asks whether to retry
IsRecoverable ==
    /\ err.e.kind # "none"
    /\ ~err.checked
    /\ err' = [err EXCEPT !.checked = TRUE, !.recoverable = is_recoverable(err.e)]
    /\ UNCHANGED <<poolVars, call, atx, engine, tx, rows, buf, acc, stmt>>

NextErr ==
    \/ \E e \in Errors : Raise(e)
    \/ \E code \in Codes : FromCode(code)
    \/ IsRecoverable
SpecErr == InitWith({OpenConfig}, 1) /\ [][NextErr]_vars

\* C33: is_recoverable answers true for bind, execution, row, index-out-of-bounds,
\* type-mismatch and pool errors, and false for connection-establishment,
\* transaction-state and unknown errors.
C33_RecoverableByKind ==
    err.checked =>
        /\ err.e.kind \in {"BindError", "ExecutionError", "RowError", "IndexOutOfBounds",
                           "TypeMismatch", "PoolError"} => err.recoverable
        /\ err.e.kind \in {"ConnectionFailed", "TransactionError", "Unknown"}
              => ~err.recoverable

\* the timeout of a checkout was asked about
C33_Witness ==
    /\ err.checked
    /\ err.e.kind = "PoolError"
    /\ err.e.msg = "Connection timeout"
    /\ err.recoverable

\* ---------------------------------------------------------------------------
\* Row access (row.rs): the foreign result buffer, the Row values next() hands
\* out, and the typed accessors
\* ---------------------------------------------------------------------------

\* rows of the result set whose Row values are followed
MaxFetched == 1
\* the types a cell can have (zqlite_result_column_type) and the types FromSql is
\* implemented for (row.rs 168-303)
CellTypes == {"null", "integer", "real", "text", "blob"}
SqlTypes == {"i64", "i32", "f64", "bool", "String", "Vec<u8>"}
\* the name of column i is i; MaxCols is the name of no column
ColumnNames == 0..MaxCols

\* the pointer zqlite_result_get_text / get_blob returns: never null for a cell that
\* holds a value
engine_null_pointers(ty) == IF ty = "null" THEN BOOLEAN ELSE {FALSE}

\* zqlite_query and Rows::new (lib.rs, row.rs 17-27): a fresh buffer; one Row is
\* followed at a time, so the one in hand is released before the next query
RowQuery(rc, cc) ==
    /\ buf.row = <<>>
    /\ RowsNew(rc, cc)
    /\ buf' = [buf EXCEPT !.state = "allocated", !.frees = 0]
    /\ acc' = NoAcc
    /\ UNCHANGED <<stmt, err>>

\* Iterator::next (row.rs 68-81): the Row copies the pointer and the column count
RowNext ==
    /\ RowsNext
    /\ buf' = IF at_end(rows) THEN buf
              ELSE [buf EXCEPT !.row = <<[row_index |-> rows.current_row,
                                          column_count |-> rows.column_count,
                                          freed |-> FALSE]>>]
    /\ acc' = NoAcc
    /\ UNCHANGED <<stmt, err>>

\* Drop for Rows (row.rs 95-101): zqlite_result_free; a Row handed out before keeps
\* its pointer
RowsFree ==
    /\ RowsDrop
    /\ buf' = [buf EXCEPT !.state = "freed", !.frees = @ + 1,
                          !.row = [i \in DOMAIN @ |-> [@[i] EXCEPT !.freed = TRUE]]]
    /\ acc' = NoAcc
    /\ UNCHANGED <<stmt, err>>

\* the Row in hand goes out of scope
RowRelease ==
    /\ buf.row # <<>>
    /\ buf' = [buf EXCEPT !.row = <<>>]
    /\ acc' = NoAcc
    /\ UNCHANGED <<poolVars, call, atx, engine, tx, rows, stmt, err>>

\* the index test of get, is_null and column_name (row.rs 40, 113, 146)
out_of_bounds_past(column, column_count) == column > column_count
out_of_bounds(column, column_count) == column >= column_count

\* the null test of the Option impls and of is_null (row.rs 158, 189, 213, 251, 296)
is_sql_null_never(ty) == FALSE
is_sql_null(ty) == ty = "null"

\* T::from_sql for the plain types (row.rs 168-288): text and blob fail on a null
\* pointer, the numeric ones return what the engine returns
from_sql_plain(t, nullptr) ==
    IF t \in {"String", "Vec<u8>"} /\ nullptr
    THEN [kind |-> "NullPointer", out |-> "none"]
    ELSE [kind |-> "ok", out |-> "value"]

\* Option<T>::from_sql (row.rs 183-303)
from_sql(t, opt, ty, nullptr) ==
    IF ~opt THEN from_sql_plain(t, nullptr)
    ELSE IF is_sql_null(ty) THEN [kind |-> "ok", out |-> "None"]
    ELSE LET v == from_sql_plain(t, nullptr)
         IN  IF v.kind = "ok" THEN [kind |-> "ok", out |-> "Some"] ELSE v

\* the record of one accessor call
Access(op, column, cols, names, t, opt, ty, read, freed, res, index) ==
    [op |-> op, column |-> column, cols |-> cols, names |-> names, t |-> t,
     opt |-> opt, ty |-> ty, read |-> read, dangling |-> read /\ freed,
     kind |-> res.kind, index |-> index, out |-> res.out]

OutOfBounds == [kind |-> "IndexOutOfBounds", out |-> "none"]

\* Row::get (row.rs 112-118) on the Row r, as op
get(op, r, column, names, t, opt, ty, nullptr) ==
    IF out_of_bounds(column, r.column_count)
    THEN Access(op, column, r.column_count, names, t, opt, "none", FALSE, r.freed,
                OutOfBounds, column)
    ELSE Access(op, column, r.column_count, names, t, opt, ty, TRUE, r.freed,
                from_sql(t, opt, ty, nullptr), 0)

\* Row::get (row.rs 112-118)
RowGet(column, t, opt) ==
    /\ buf.row # <<>>
    /\ \E ty \in CellTypes : \E nullptr \in engine_null_pointers(ty) :
         acc' = get("get", buf.row[1], column, {}, t, opt, ty, nullptr)
    /\ UNCHANGED <<poolVars, call, atx, engine, tx, rows, buf, stmt, err>>

\* Row::is_null (row.rs 145-159)
RowIsNull(column) ==
    /\ buf.row # <<>>
    /\ LET r == buf.row[1] IN
       \E ty \in CellTypes :
         acc' = IF out_of_bounds(column, r.column_count)
                THEN Access("is_null", column, r.column_count, {}, "bool", FALSE, "none",
                            FALSE, r.freed, OutOfBounds, column)
                ELSE Access("is_null", column, r.column_count, {}, "bool", FALSE, ty,
                            TRUE, r.freed,
                            [kind |-> "ok",
                             out |-> IF is_sql_null(ty) THEN "true" ELSE "false"], 0)
    /\ UNCHANGED <<poolVars, call, atx, engine, tx, rows, buf, stmt, err>>

\* Rows::column_name (row.rs 39-53): on the Rows itself, so on its live buffer
RowsColumnName(column) ==
    /\ rows.last # "absent"
    /\ \E nullptr \in BOOLEAN :
         acc' = IF out_of_bounds(column, rows.column_count)
                THEN Access("column_name", column, rows.column_count, {}, "String",
                            FALSE, "none", FALSE, FALSE, OutOfBounds, column)
                ELSE Access("column_name", column, rows.column_count, {}, "String",
                            FALSE, "text", TRUE, FALSE,
                            from_sql_plain("String", nullptr), 0)
    /\ UNCHANGED <<poolVars, call, atx, engine, tx, rows, buf, stmt, err>>

\* the first column whose reported name is the one asked for (row.rs 122-132); the
\* column count when there is none
RECURSIVE find_column(_, _, _, _)
find_column(i, column_count, names, name) ==
    IF i >= column_count THEN column_count
    ELSE IF i \in names /\ i = name THEN i
    ELSE find_column(i + 1, column_count, names, name)

\* the columns whose name pointer is not null: all of them, or all but the one asked
\* for
engine_names(column_count, name) ==
    {0..(column_count - 1), (0..(column_count - 1)) \ {name}}

\* Row::get_by_name (row.rs 121-137)
RowGetByName(name, t, opt) ==
    /\ buf.row # <<>>
    /\ LET r == buf.row[1] IN
       \E names \in engine_names(r.column_count, name) :
       \E ty \in CellTypes : \E nullptr \in engine_null_pointers(ty) :
         LET i == find_column(0, r.column_count, names, name) IN
         acc' = IF i < r.column_count
                THEN get("get_by_name", r, i, names, t, opt, ty, nullptr)
                ELSE Access("get_by_name", name, r.column_count, names, t, opt, "none",
                            r.column_count > 0, r.freed,
                            [kind |-> "RowError", out |-> "none"], 0)
    /\ UNCHANGED <<poolVars, call, atx, engine, tx, rows, buf, stmt, err>>

NextRow ==
    \/ \E rc \in 0..MaxFetched : \E cc \in 0..MaxCols : RowQuery(rc, cc)
    \/ RowNext
    \/ RowsFree
    \/ RowRelease
    \/ \E column \in 0..MaxCols : \E t \in SqlTypes : \E opt \in BOOLEAN :
         RowGet(column, t, opt)
    \/ \E column \in 0..MaxCols : RowIsNull(column)
    \/ \E column \in 0..MaxCols : RowsColumnName(column)
    \/ \E name \in ColumnNames : \E t \in SqlTypes : \E opt \in BOOLEAN :
         RowGetByName(name, t, opt)
SpecRow == InitWith({OpenConfig}, 1) /\ [][NextRow]_vars

\* C31: Row::get, Row::is_null and Rows::column_name called with an index that is
\* not below the column count fail with IndexOutOfBounds carrying that index and do
\* not read the foreign result; a lookup by a name no column has fails with RowError
C31_IndexOutOfBounds ==
    /\ acc.op \in {"get", "is_null", "column_name"} /\ acc.column >= acc.cols
         => /\ acc.kind = "IndexOutOfBounds"
            /\ acc.index = acc.column
            /\ ~acc.read
    /\ acc.op = "get_by_name" /\ acc.column \notin acc.names
         => acc.kind = "RowError"
C31_Witness ==
    /\ acc.op = "get"
    /\ acc.column = acc.cols
    /\ acc.cols > 0
    /\ acc.kind = "IndexOutOfBounds"

\* C32: for every supported type, the Option extraction of a column of a Row whose
\* buffer is allocated returns None exactly when the cell is SQL null, which is when
\* is_null reports true, and Some otherwise; on null it neither fails nor returns a
\* default
C32_OptionNoneIffNull ==
    /\ acc.op = "get" /\ acc.opt /\ acc.read /\ ~acc.dangling
         => /\ acc.kind = "ok"
            /\ acc.out = (IF acc.ty = "null" THEN "None" ELSE "Some")
    /\ acc.op = "is_null" /\ acc.read /\ ~acc.dangling
         => acc.out = (IF acc.ty = "null" THEN "true" ELSE "false")
C32_Witness ==
    /\ acc.op = "get"
    /\ acc.opt
    /\ acc.t = "String"
    /\ acc.ty = "null"
    /\ ~acc.dangling
    /\ acc.out = "None"

\* C39: the buffer is freed exactly once, on drop of its Rows, and no Row reads it
\* after that
C39_NoReadAfterFree ==
    /\ buf.frees <= 1
    /\ buf.state = "freed" => buf.frees = 1
    /\ ~acc.dangling

====
